---- MODULE Spec2Model ----
(***************************************************************************)
(* Model of GUI.py, the guided CPU-scheduling practice wizard.             *)
(*                                                                         *)
(* A Python string is modelled as a sequence of one-character strings; a   *)
(* string literal of the program that is never taken apart is kept as one  *)
(* element of such a sequence.  The Tk event loop is single threaded: one  *)
(* action of the model is one event handler run to completion.             *)
(***************************************************************************)
EXTENDS Integers, Sequences, FiniteSets, TLC

(***************************************************************************)
(* Bounds of the exploration (not program constants).                      *)
(***************************************************************************)
\* input events (key presses, clicks, survey edits) per session
MaxEvents == 2
\* keys that may be held down at the same time
MaxPressed == 2

(***************************************************************************)
(* Program constants.                                                      *)
(***************************************************************************)
PROCESSES ==
    << [name |-> "A", arrival |-> 0,  service |-> 10],
       [name |-> "B", arrival |-> 2,  service |-> 5],
       [name |-> "C", arrival |-> 2,  service |-> 7],
       [name |-> "D", arrival |-> 5,  service |-> 3],
       [name |-> "E", arrival |-> 11, service |-> 1] >>

RECURSIVE SumService(_)
SumService(n) == IF n = 0 THEN 0 ELSE PROCESSES[n].service + SumService(n - 1)

TOTAL_SERVICE == SumService(Len(PROCESSES))

HORIZON == TOTAL_SERVICE

POLICY_ORDER == << "FIFO", "RRq2", "STCF", "MLFQ" >>

PolicyKeys == { POLICY_ORDER[n] : n \in 1..Len(POLICY_ORDER) }

\* POLICY_ORDER.index(key), 0-based as in the program
PolicyIndex(key) == (CHOOSE n \in 1..Len(POLICY_ORDER) : POLICY_ORDER[n] = key) - 1

(***************************************************************************)
(* Characters and str methods.                                             *)
(***************************************************************************)
LowerLetters == << "a", "b", "c", "d", "e", "f", "g", "h", "i", "j", "k", "l", "m",
                   "n", "o", "p", "q", "r", "s", "t", "u", "v", "w", "x", "y", "z" >>

UpperLetters == << "A", "B", "C", "D", "E", "F", "G", "H", "I", "J", "K", "L", "M",
                   "N", "O", "P", "Q", "R", "S", "T", "U", "V", "W", "X", "Y", "Z" >>

IsLower(c) == \E n \in 1..Len(LowerLetters) : LowerLetters[n] = c

IsUpper(c) == \E n \in 1..Len(UpperLetters) : UpperLetters[n] = c

\* str.upper() on one character
UpperChar(c) ==
    IF IsLower(c)
    THEN UpperLetters[CHOOSE n \in 1..Len(LowerLetters) : LowerLetters[n] = c]
    ELSE c

\* str.upper()
Upper(s) == [n \in 1..Len(s) |-> UpperChar(s[n])]

\* str.isalpha()
IsAlpha(s) == Len(s) > 0 /\ \A n \in 1..Len(s) : IsLower(s[n]) \/ IsUpper(s[n])

Whitespace == { " ", "\t", "\n", "\r" }

RECURSIVE LStrip(_)
LStrip(s) == IF s # << >> /\ Head(s) \in Whitespace THEN LStrip(Tail(s)) ELSE s

RECURSIVE RStrip(_)
RStrip(s) ==
    IF s # << >> /\ s[Len(s)] \in Whitespace THEN RStrip(SubSeq(s, 1, Len(s) - 1)) ELSE s

\* str.strip()
Strip(s) == RStrip(LStrip(s))

Digits == << "0", "1", "2", "3", "4", "5", "6", "7", "8", "9" >>

\* str(n) for n >= 0
RECURSIVE IntToStr(_)
IntToStr(n) ==
    IF n < 10 THEN << Digits[n + 1] >>
    ELSE IntToStr(n \div 10) \o << Digits[(n % 10) + 1] >>

\* sep.join(lines)
RECURSIVE Join(_, _)
Join(sep, lines) ==
    IF lines = << >> THEN << >>
    ELSE IF Len(lines) = 1 THEN lines[1]
    ELSE lines[1] \o sep \o Join(sep, Tail(lines))

(***************************************************************************)
(* Shared widget pieces.                                                   *)
(***************************************************************************)
AllowedLetters == { << "A" >>, << "B" >>, << "C" >>, << "D" >>, << "E" >> }

\* is_allowed_char without the test of the letter
is_allowed_char_AnyChar(s) ==
    IF s = << >> THEN TRUE
    ELSE IF Len(s) = 1 THEN TRUE
    ELSE FALSE

is_allowed_char(s) ==
    IF s = << >> THEN TRUE
    ELSE IF Len(s) = 1 /\ Upper(s) \in AllowedLetters THEN TRUE
    ELSE FALSE

_validate_cell(proposed) ==
    IF Len(proposed) > 1 THEN FALSE
    ELSE is_allowed_char(proposed)

\* Entry.insert(index, s) on an entry built with validate="key": the edit
\* is applied only when the validatecommand accepts the proposed content
EntryInsert(content, index, s) ==
    LET proposed == SubSeq(content, 1, index) \o s \o SubSeq(content, index + 1, Len(content))
    IN  IF _validate_cell(proposed) THEN proposed ELSE content

\* Entry.delete(first, last) on the same entry (characters first..last-1)
EntryDelete(content, first, last) ==
    LET proposed == SubSeq(content, 1, first) \o SubSeq(content, last + 1, Len(content))
    IN  IF _validate_cell(proposed) THEN proposed ELSE content

(***************************************************************************)
(* Inputs of the exploration.                                              *)
(***************************************************************************)
\* character keys the user types: a lower-case and an upper-case letter of
\* A..E and a letter outside A..E
CharKeys == { "b", "C", "x" }

Keys == CharKeys \cup { "BackSpace", "Left", "Right" }

\* event.char of a key event
EventChar(key) ==
    IF key \in CharKeys THEN << key >>
    ELSE IF key = "BackSpace" THEN << "\\b" >>
    ELSE << >>

\* texts the user may put into a tk.Text of the survey page
TextChoices == { << " ", "o", "k", " " >> }

\* radio buttons the user may select, among the values 1..7 of a scale
RatingChoices == { 1, 7 }

\* cells the user may click on
ClickChoices == { 0, HORIZON - 1 }

\* file names the user may pick in the save dialog ("" is a cancelled dialog)
PathChoices == { "", "scheduling_master.txt" }

(***************************************************************************)
(* State.                                                                  *)
(***************************************************************************)
VARIABLES
    current_page,         \* class of App.current_page
    policy_key,           \* policy_key of the current PolicyPage / SurveyPage
    responses,            \* App.responses: policy_key -> timeline string
    surveys,              \* App.surveys: policy_key -> survey record
    cells,                \* TimelineGrid.cells: content of entry t, t = 0..HORIZON-1
    focus,                \* index of the cell holding the keyboard focus
    focus_first_pending,  \* the after(50, focus_first) callback is scheduled
    pressed,              \* keys pressed and not yet released
    llm_texts,            \* SurveyPage.llm_texts contents
    rating_vars,          \* SurveyPage.rating_vars values
    fb_text,              \* SurveyPage.fb_text content
    text,                 \* SummaryPage.text content
    files,                \* files written by _save_master_txt: path -> content
    events                \* input events so far

vars == << current_page, policy_key, responses, surveys, cells, focus,
           focus_first_pending, pressed, llm_texts, rating_vars, fb_text,
           text, files, events >>

NoFocus == -1

NoKey == ""

NoWidgets == << >>

app_state == << responses, surveys >>

grid_state == << cells, focus, focus_first_pending >>

survey_widgets == << llm_texts, rating_vars, fb_text >>

\* the dict replaced by a new one instead of updated
DictSet_Replace(d, key, value) == [k \in {key} |-> value]

\* dict[key] = value
DictSet(d, key, value) ==
    [k \in (DOMAIN d) \cup {key} |-> IF k = key THEN value ELSE d[k]]

(***************************************************************************)
(* TimelineGrid.                                                           *)
(***************************************************************************)
\* TimelineGrid.__init__: horizon empty entries
NewGrid(horizon) == [t \in 0..(horizon - 1) |-> << >>]

\* s[:n]
Prefix(s, n) == SubSeq(s, 1, IF n < Len(s) THEN n ELSE Len(s))

\* the entry's first character taken without upper()
CellString_NoUpper(content) == Prefix(content, 1)

\* what one entry contributes to get_string
CellString(content) == Upper(Prefix(content, 1))

RECURSIVE JoinCells(_, _)
JoinCells(c, n) ==
    IF n = 0 THEN << >>
    ELSE JoinCells(c, n - 1) \o CellString(c[n - 1])

get_string == JoinCells(cells, Cardinality(DOMAIN cells))

\* _move_focus without the test 0 <= index: a negative index counts from
\* the end of the list of cells
_move_focus_NoLowerTest(index) ==
    IF index < Cardinality(DOMAIN cells)
    THEN (IF index < 0 THEN Cardinality(DOMAIN cells) + index ELSE index)
    ELSE focus

\* the cell that has the focus after _move_focus(index)
_move_focus(index) ==
    IF 0 <= index /\ index < Cardinality(DOMAIN cells) THEN index ELSE focus

\* the content of the widget after the first half of _on_keyrelease
KeyReleaseContent(val) ==
    IF val # << >>
    THEN EntryInsert(EntryDelete(val, 0, Len(val)), 0, Upper(<< val[Len(val)] >>))
    ELSE val

\* _on_keyrelease comparing the character without upper()
_on_keyrelease_NoUpper(ch, index) ==
    /\ cells' = [cells EXCEPT ![index] = KeyReleaseContent(@)]
    /\ focus' = IF ch # << >> /\ IsAlpha(ch) /\ ch \in AllowedLetters
                THEN _move_focus(index + 1)
                ELSE focus

_on_keyrelease(ch, index) ==
    /\ cells' = [cells EXCEPT ![index] = KeyReleaseContent(@)]
    /\ focus' = IF ch # << >> /\ IsAlpha(ch) /\ Upper(ch) \in AllowedLetters
                THEN _move_focus(index + 1)
                ELSE focus

_handle_backspace(index) ==
    IF cells[index] = << >>
    THEN /\ focus' = _move_focus(index - 1)
         /\ cells' = cells
    ELSE \* no "break": the class binding deletes the character before the cursor
         /\ focus' = focus
         /\ \E cursor \in 0..Len(cells[index]) :
                cells' = IF cursor = 0 THEN cells
                         ELSE [cells EXCEPT ![index] = EntryDelete(@, cursor - 1, cursor)]

(***************************************************************************)
(* App: navigation helpers and the master record.                          *)
(***************************************************************************)
DefaultText(i) == << "Paste or type explanation " >> \o IntToStr(i) \o << " here." >>

goto_policy(key) ==
    /\ current_page' = "PolicyPage"
    /\ policy_key' = key
    /\ cells' = NewGrid(HORIZON)
    /\ focus' = NoFocus
    /\ focus_first_pending' = TRUE
    /\ llm_texts' = NoWidgets
    /\ rating_vars' = NoWidgets
    /\ fb_text' = << >>

goto_survey(key) ==
    /\ current_page' = "SurveyPage"
    /\ policy_key' = key
    /\ cells' = NoWidgets
    /\ focus' = NoFocus
    /\ focus_first_pending' = FALSE
    /\ llm_texts' = [i \in 1..3 |-> DefaultText(i)]
    /\ rating_vars' = [i \in 1..3 |-> 0]
    /\ fb_text' = << >>

ProcessLine(p) ==
    << "  ", p.name, ": arrival=" >> \o IntToStr(p.arrival)
        \o << ", service=" >> \o IntToStr(p.service)

RECURSIVE SurveyLines_Reversed(_, _, _)
\* the ratings paired with the explanations in reverse order
SurveyLines_Reversed(key, survey, i) ==
    IF i > Len(survey.llm_texts) \/ i > Len(survey.ratings) THEN << >>
    ELSE << << "[", key, "] LLM " >> \o IntToStr(i) \o << ":" >>,
            Strip(survey.llm_texts[i]),
            << "[", key, "] Rating " >> \o IntToStr(i) \o << ": " >>
                \o IntToStr(survey.ratings[Len(survey.ratings) + 1 - i])
                \o << " (misconception closeness)" >> >>
         \o SurveyLines_Reversed(key, survey, i + 1)

RECURSIVE SurveyLines(_, _, _)
\* the loop over zip(llm_texts, ratings), entries i..
SurveyLines(key, survey, i) ==
    IF i > Len(survey.llm_texts) \/ i > Len(survey.ratings) THEN << >>
    ELSE << << "[", key, "] LLM " >> \o IntToStr(i) \o << ":" >>,
            Strip(survey.llm_texts[i]),
            << "[", key, "] Rating " >> \o IntToStr(i) \o << ": " >>
                \o IntToStr(survey.ratings[i]) \o << " (misconception closeness)" >> >>
         \o SurveyLines(key, survey, i + 1)

PolicyLines(resp, surv, key) ==
    LET s == IF key \in DOMAIN resp THEN resp[key] ELSE << >>
    IN  << << "[", key, "] timeline len=" >> \o IntToStr(Len(s)), s >>
        \o (IF key \in DOMAIN surv
            THEN SurveyLines(key, surv[key], 1)
                 \o << << "[", key, "] Overall feedback:" >>, Strip(surv[key].feedback) >>
            ELSE << >>)
        \o << << >> >>

RECURSIVE AllPolicyLines(_, _, _)
AllPolicyLines(resp, surv, n) ==
    IF n > Len(POLICY_ORDER) THEN << >>
    ELSE PolicyLines(resp, surv, POLICY_ORDER[n]) \o AllPolicyLines(resp, surv, n + 1)

\* the list out of format_master_txt (the dash of the title is written "-")
MasterLines(resp, surv) ==
    << << "CPU Scheduling Practice - Master Record", "\n" >>,
       << "Processes (Arrival, Service):" >> >>
    \o [n \in 1..Len(PROCESSES) |-> ProcessLine(PROCESSES[n])]
    \o << << >> >>
    \o AllPolicyLines(resp, surv, 1)

format_master_txt(resp, surv) == Join(<< "\n" >>, MasterLines(resp, surv))

goto_summary(resp, surv) ==
    /\ current_page' = "SummaryPage"
    /\ policy_key' = NoKey
    /\ cells' = NoWidgets
    /\ focus' = NoFocus
    /\ focus_first_pending' = FALSE
    /\ llm_texts' = NoWidgets
    /\ rating_vars' = NoWidgets
    /\ fb_text' = << >>
    /\ text' = format_master_txt(resp, surv)

(***************************************************************************)
(* Initial state: App.__init__ ends on the start page.                     *)
(***************************************************************************)
Init ==
    /\ current_page = "StartPage"
    /\ policy_key = NoKey
    /\ responses = << >>
    /\ surveys = << >>
    /\ cells = NoWidgets
    /\ focus = NoFocus
    /\ focus_first_pending = FALSE
    /\ pressed = {}
    /\ llm_texts = NoWidgets
    /\ rating_vars = NoWidgets
    /\ fb_text = << >>
    /\ text = << >>
    /\ files = << >>
    /\ events = 0

(***************************************************************************)
(* Event handlers.                                                         *)
(***************************************************************************)
\* StartPage: the "Start - FIFO" button
StartButton ==
    /\ current_page = "StartPage"
    /\ goto_policy("FIFO")
    /\ UNCHANGED << app_state, pressed, text, files, events >>

\* PolicyPage.__init__: the callback scheduled by after(50, focus_first)
focus_first ==
    /\ current_page = "PolicyPage"
    /\ focus_first_pending
    /\ focus_first_pending' = FALSE
    /\ focus' = IF Cardinality(DOMAIN cells) > 0 THEN 0 ELSE focus
    /\ UNCHANGED << current_page, policy_key, app_state, cells, pressed,
                    survey_widgets, text, files, events >>

\* a mouse click on entry t gives it the focus
ClickCell(t) ==
    /\ current_page = "PolicyPage"
    /\ events < MaxEvents
    /\ events' = events + 1
    /\ focus' = t
    /\ UNCHANGED << current_page, policy_key, app_state, cells, focus_first_pending,
                    pressed, survey_widgets, text, files >>

\* <Key> on the entry with the focus: the character is inserted at the
\* cursor, subject to the validatecommand
KeyPress(key) ==
    /\ current_page = "PolicyPage"
    /\ key \in CharKeys
    /\ key \notin pressed
    /\ Cardinality(pressed) < MaxPressed
    /\ events < MaxEvents
    /\ events' = events + 1
    /\ pressed' = pressed \cup {key}
    /\ IF focus = NoFocus
       THEN cells' = cells
       ELSE \E cursor \in 0..Len(cells[focus]) :
                cells' = [cells EXCEPT ![focus] = EntryInsert(@, cursor, EventChar(key))]
    /\ UNCHANGED << current_page, policy_key, app_state, focus, focus_first_pending,
                    survey_widgets, text, files >>

\* <BackSpace> on the entry with the focus
BackSpacePress ==
    /\ current_page = "PolicyPage"
    /\ "BackSpace" \notin pressed
    /\ Cardinality(pressed) < MaxPressed
    /\ events < MaxEvents
    /\ events' = events + 1
    /\ pressed' = pressed \cup {"BackSpace"}
    /\ IF focus = NoFocus
       THEN UNCHANGED << cells, focus >>
       ELSE _handle_backspace(focus)
    /\ UNCHANGED << current_page, policy_key, app_state, focus_first_pending,
                    survey_widgets, text, files >>

\* <Left> (step = -1) and <Right> (step = 1) on the entry with the focus
ArrowPress(key, step) ==
    /\ current_page = "PolicyPage"
    /\ key \notin pressed
    /\ Cardinality(pressed) < MaxPressed
    /\ events < MaxEvents
    /\ events' = events + 1
    /\ pressed' = pressed \cup {key}
    /\ focus' = IF focus = NoFocus THEN focus ELSE _move_focus(focus + step)
    /\ UNCHANGED << current_page, policy_key, app_state, cells, focus_first_pending,
                    survey_widgets, text, files >>

LeftPress == ArrowPress("Left", -1)

RightPress == ArrowPress("Right", 1)

\* <KeyRelease>, delivered to the entry that has the focus at that time
KeyRelease(key) ==
    /\ key \in pressed
    /\ pressed' = pressed \ {key}
    /\ IF current_page = "PolicyPage" /\ focus # NoFocus
       THEN _on_keyrelease(EventChar(key), focus)
       ELSE UNCHANGED << cells, focus >>
    /\ UNCHANGED << current_page, policy_key, app_state, focus_first_pending,
                    survey_widgets, text, files, events >>

_submit ==
    LET s == get_string
    IN  /\ responses' = DictSet(responses, policy_key, s)
        /\ goto_survey(policy_key)
        /\ UNCHANGED << surveys, pressed, text, files, events >>

\* the Submit button of the policy page
SubmitButton ==
    /\ current_page = "PolicyPage"
    /\ _submit

\* <Return>, bound with bind_all by the policy page
_on_return ==
    /\ current_page = "PolicyPage"
    /\ focus # NoFocus
    /\ _submit

\* a radio button of rating scale i
SelectRating(i, j) ==
    /\ current_page = "SurveyPage"
    /\ events < MaxEvents
    /\ events' = events + 1
    /\ rating_vars' = [rating_vars EXCEPT ![i] = j]
    /\ UNCHANGED << current_page, policy_key, app_state, grid_state, pressed,
                    llm_texts, fb_text, text, files >>

\* the user replaces the content of explanation box i
EditExplanation(i, t) ==
    /\ current_page = "SurveyPage"
    /\ events < MaxEvents
    /\ events' = events + 1
    /\ llm_texts' = [llm_texts EXCEPT ![i] = t]
    /\ UNCHANGED << current_page, policy_key, app_state, grid_state, pressed,
                    rating_vars, fb_text, text, files >>

\* the user replaces the content of the overall-comment box
EditFeedback(t) ==
    /\ current_page = "SurveyPage"
    /\ events < MaxEvents
    /\ events' = events + 1
    /\ fb_text' = t
    /\ UNCHANGED << current_page, policy_key, app_state, grid_state, pressed,
                    llm_texts, rating_vars, text, files >>

\* the next policy looked up with the index of the current one
NextPage_SamePolicy(key, surv) ==
    LET idx == PolicyIndex(key)
    IN  IF idx < Len(POLICY_ORDER) - 1
        THEN goto_policy(POLICY_ORDER[idx + 1]) /\ text' = text
        ELSE goto_summary(responses, surv)

\* the test for the last policy off by one: the summary follows STCF
NextPage_EarlySummary(key, surv) ==
    LET idx == PolicyIndex(key)
    IN  IF idx < Len(POLICY_ORDER) - 2
        THEN goto_policy(POLICY_ORDER[(idx + 1) + 1]) /\ text' = text
        ELSE goto_summary(responses, surv)

\* the page shown after the survey of policy key
NextPage(key, surv) ==
    LET idx == PolicyIndex(key)
    IN  IF idx < Len(POLICY_ORDER) - 1
        THEN goto_policy(POLICY_ORDER[(idx + 1) + 1]) /\ text' = text
        ELSE goto_summary(responses, surv)

\* the key under which _save_and_continue stores the record
SurveyKey == policy_key

_save_and_continue ==
    /\ current_page = "SurveyPage"
    /\ LET llms == llm_texts
           ratings == rating_vars
           feedback == fb_text
           surv == DictSet(surveys, SurveyKey,
                           [llm_texts |-> llms, ratings |-> ratings, feedback |-> feedback])
       IN  /\ surveys' = surv
           /\ NextPage(policy_key, surv)
    /\ UNCHANGED << responses, pressed, files, events >>

\* the export consuming the responses it writes
_save_master_txt_Consuming ==
    /\ current_page = "SummaryPage"
    /\ \E path \in PathChoices :
           IF path = ""
           THEN UNCHANGED << files, responses >>
           ELSE /\ files' = DictSet(files, path, format_master_txt(responses, surveys))
                /\ responses' = << >>
    /\ UNCHANGED << current_page, policy_key, surveys, grid_state, pressed,
                    survey_widgets, text, events >>

\* SummaryPage: the "Save Master TXT" button
_save_master_txt ==
    /\ current_page = "SummaryPage"
    /\ \E path \in PathChoices :
           IF path = ""
           THEN files' = files
           ELSE files' = DictSet(files, path, format_master_txt(responses, surveys))
    /\ UNCHANGED << current_page, policy_key, app_state, grid_state, pressed,
                    survey_widgets, text, events >>

Next ==
    \/ StartButton
    \/ focus_first
    \/ \E t \in ClickChoices : ClickCell(t)
    \/ \E key \in CharKeys : KeyPress(key)
    \/ BackSpacePress
    \/ LeftPress
    \/ RightPress
    \/ \E key \in Keys : KeyRelease(key)
    \/ SubmitButton
    \/ _on_return
    \/ \E i \in 1..3, j \in RatingChoices : SelectRating(i, j)
    \/ \E i \in 1..3, t \in TextChoices : EditExplanation(i, t)
    \/ \E t \in TextChoices : EditFeedback(t)
    \/ _save_and_continue
    \/ _save_master_txt

Spec == Init /\ [][Next]_vars

(***************************************************************************)
(* Properties.                                                             *)
(***************************************************************************)
\* the step that runs PolicyPage._submit
SubmitStep == current_page = "PolicyPage" /\ current_page' = "SurveyPage"

AllCellsEmpty == \A t \in DOMAIN cells : cells[t] = << >>

Blank == " "

\* C1: every timeline string stored in App.responses has length exactly
\* HORIZON, whatever the cells held at submission.
C1_ResponseLengthIsHorizon ==
    \A k \in DOMAIN responses : Len(responses[k]) = HORIZON

\* C2: submitting a policy page whose cells are all empty stores a string
\* of HORIZON blank characters for that policy.
C2_EmptyGridStoresBlanks ==
    [][(SubmitStep /\ AllCellsEmpty)
         => responses'[policy_key] = [n \in 1..HORIZON |-> Blank]]_vars

\* the contents a cell may take according to the claim: empty, or one
\* letter of A..E in either case
C3_AllowedContents ==
    { << >> } \cup { << c >> : c \in { "A", "B", "C", "D", "E", "a", "b", "c", "d", "e" } }

\* the content proposed by typing character ch at position cursor
C3_Proposed(content, cursor, ch) ==
    SubSeq(content, 1, cursor) \o << ch >> \o SubSeq(content, cursor + 1, Len(content))

C4_RatingsInScale ==
    \A k \in DOMAIN surveys :
        /\ Len(surveys[k].ratings) = 3
        /\ \A i \in 1..3 : surveys[k].ratings[i] \in 1..7

\* the characters the claim calls valid
C5_ValidChars == { "A", "B", "C", "D", "E", "a", "b", "c", "d", "e" }

\* C5: typing a valid character while box i has the focus moves the focus
\* to box i+1 when i+1 < HORIZON and leaves it on box i when i is the last
\* box (the press leaves the focus alone, the release moves it).
C5_ValidKeyAdvancesFocus ==
    [][\A key \in CharKeys :
          (key \in C5_ValidChars /\ current_page = "PolicyPage" /\ focus # NoFocus)
          => /\ KeyPress(key) => focus' = focus
             /\ KeyRelease(key)
                  => focus' = IF focus + 1 < HORIZON THEN focus + 1 ELSE focus]_vars

\* C5 witness: "C" was typed and released in the last box, which keeps the focus
C5_Witness ==
    /\ current_page = "PolicyPage"
    /\ focus = HORIZON - 1
    /\ cells[HORIZON - 1] = << "C" >>
    /\ pressed = {}

\* C6: Backspace on an empty box i moves the focus to box i-1 when i > 0
\* (it stays on box 0) and changes no cell; Backspace on a non-empty box
\* does not move the focus.
C6_BackspaceRetreats ==
    [][(BackSpacePress /\ focus # NoFocus)
         => IF cells[focus] = << >>
            THEN /\ focus' = IF focus > 0 THEN focus - 1 ELSE focus
                 /\ cells' = cells
            ELSE focus' = focus]_vars

\* C6 witness: Backspace was pressed in the empty last box, the focus is one box back
C6_Witness ==
    /\ current_page = "PolicyPage"
    /\ "BackSpace" \in pressed
    /\ focus = HORIZON - 2
    /\ AllCellsEmpty
    /\ events = 2

\* the lines of a text, split at its newline characters
RECURSIVE SplitLines(_)
SplitLines(flat) ==
    IF \A n \in 1..Len(flat) : flat[n] # "\n" THEN << flat >>
    ELSE LET first == CHOOSE n \in 1..Len(flat) :
                          flat[n] = "\n" /\ \A m \in 1..(n - 1) : flat[m] # "\n"
         IN  << SubSeq(flat, 1, first - 1) >>
                 \o SplitLines(SubSeq(flat, first + 1, Len(flat)))

\* lines before the first policy block: title, blank, table heading, one
\* line per process, blank
C7_TableLines == 3 + Len(PROCESSES) + 1

\* lines of one policy block: timeline heading, timeline, three lines per
\* explanation, comment heading, comment, blank
C7_BlockLines == 2 + 3 * 3 + 2 + 1

\* line n of the block of the policy at position k of POLICY_ORDER
C7_BlockLine(lines, k, n) == lines[C7_TableLines + (k - 1) * C7_BlockLines + n]

C7_RatingLine(key, i, r) ==
    << "[", key, "] Rating " >> \o IntToStr(i) \o << ": " >> \o IntToStr(r)
        \o << " (misconception closeness)" >>

\* the layout of the export shown on the summary page; Shown(t) is the
\* form in which a free text t appears
C7_Layout(Shown(_)) ==
    LET lines == SplitLines(text)
    IN  /\ Len(lines) = C7_TableLines + Len(POLICY_ORDER) * C7_BlockLines
        /\ \A n \in 1..Len(PROCESSES) :
              lines[3 + n] =
                 << "  ", PROCESSES[n].name, ": arrival=" >>
                    \o IntToStr(PROCESSES[n].arrival)
                    \o << ", service=" >> \o IntToStr(PROCESSES[n].service)
        /\ \A k \in 1..Len(POLICY_ORDER) :
              LET key == POLICY_ORDER[k]
              IN  /\ Head(Tail(C7_BlockLine(lines, k, 1))) = key
                  /\ C7_BlockLine(lines, k, 2) = responses[key]
                  /\ \A i \in 1..3 :
                        /\ C7_BlockLine(lines, k, 3 * i + 1)
                              = Shown(surveys[key].llm_texts[i])
                        /\ C7_BlockLine(lines, k, 3 * i + 2)
                              = C7_RatingLine(key, i, surveys[key].ratings[i])
                  /\ C7_BlockLine(lines, k, 13) = Shown(surveys[key].feedback)

C7_Verbatim(t) == t

\* C7 (as claimed): the export taken from the summary page is the process
\* table followed by one block per policy in the order of POLICY_ORDER, each
\* block holding the submitted timeline, then each explanation text followed
\* by its own rating, then the overall comment.
C7_ExportHoldsTexts ==
    current_page = "SummaryPage" => C7_Layout(C7_Verbatim)

\* C7 (amended): the same layout, with each explanation text and the
\* overall comment written without their leading and trailing whitespace.
C7_ExportHoldsStrippedTexts ==
    current_page = "SummaryPage" => C7_Layout(Strip)

\* C7 witness: a summary whose FIFO record has an edited explanation and a
\* selected rating
C7_Witness ==
    /\ current_page = "SummaryPage"
    /\ \E i \in 1..3 : surveys["FIFO"].llm_texts[i] \in TextChoices
    /\ \E i \in 1..3 : surveys["FIFO"].ratings[i] # 0

\* C8: the export is idempotent: every file written from the summary page
\* holds the very text the page computed when it was built, which is also
\* what a further call returns, and writing a file changes neither
\* App.responses nor App.surveys.
C8_ExportIdempotent ==
    /\ [](current_page = "SummaryPage"
            => /\ text = format_master_txt(responses, surveys)
               /\ \A path \in DOMAIN files : files[path] = text)
    /\ [][_save_master_txt => UNCHANGED app_state]_vars

\* C8 witness: a file was written from a summary that holds typed data
C8_Witness ==
    /\ current_page = "SummaryPage"
    /\ DOMAIN files # {}
    /\ \E k \in DOMAIN responses : responses[k] # << >>

\* position of the current page in the sequence Start, FIFO entry, FIFO
\* survey, ..., MLFQ survey, Summary
PageIndex ==
    CASE current_page = "StartPage" -> 0
      [] current_page = "PolicyPage" -> 1 + 2 * PolicyIndex(policy_key)
      [] current_page = "SurveyPage" -> 2 + 2 * PolicyIndex(policy_key)
      [] current_page = "SummaryPage" -> 1 + 2 * Len(POLICY_ORDER)

\* C9: the pages follow the sequence Start, then entry page and survey page
\* of FIFO, RRq2, STCF, MLFQ in turn, then Summary; every page change moves
\* one step forward and is made by the Start button, by Submit on a policy
\* page or by Save & Continue on a survey page; Summary is never left.
C9_LinearPageSequence ==
    [][(PageIndex' # PageIndex)
         => /\ PageIndex' = PageIndex + 1
            /\ \/ current_page = "StartPage" /\ StartButton
               \/ current_page = "PolicyPage" /\ (SubmitButton \/ _on_return)
               \/ current_page = "SurveyPage" /\ _save_and_continue]_vars

\* C9 witness: the summary page, at the end of the sequence
C9_Witness ==
    /\ current_page = "SummaryPage"
    /\ DOMAIN surveys = PolicyKeys

\* C10: a survey record appears only when the survey page of its policy is
\* saved, and once stored it keeps its texts, ratings and comment.
C10_SurveyRecordFrozen ==
    [][/\ \A k \in DOMAIN surveys : k \in DOMAIN surveys' /\ surveys'[k] = surveys[k]
       /\ \A k \in (DOMAIN surveys') \ (DOMAIN surveys) :
             current_page = "SurveyPage" /\ policy_key = k /\ _save_and_continue]_vars

\* C10 witness: the FIFO record, with a selected rating, after all later
\* submissions and an export
C10_Witness ==
    /\ current_page = "SummaryPage"
    /\ DOMAIN files # {}
    /\ \E i \in 1..3 : surveys["FIFO"].ratings[i] # 0
    /\ \E i \in 1..3 : surveys["MLFQ"].ratings[i] # 0

\* the characters the claim allows in a stored timeline string
C11_TimelineChars == { "A", "B", "C", "D", "E", Blank }

\* C11: every character of every timeline string stored in App.responses is
\* one of the upper-case letters A..E or a blank, whatever keys were typed.
C11_ResponseCharsAllowed ==
    \A k \in DOMAIN responses :
        \A n \in 1..Len(responses[k]) : responses[k][n] \in C11_TimelineChars

\* C11 witness: the page was submitted while "b" was still held down, so
\* the cell held the lower-case letter; the stored string holds "B"
C11_Witness ==
    /\ current_page = "SurveyPage"
    /\ "b" \in pressed
    /\ responses[policy_key] = << "B" >>

\* the first n policies of POLICY_ORDER
C12_PolicyPrefix(n) == { POLICY_ORDER[m] : m \in 1..n }

\* C12: the policies with a survey record are a prefix of POLICY_ORDER, the
\* policies with a response are that prefix or that prefix and the next
\* policy, and on the summary page all four policies have both.
C12_ProgressPrefix ==
    /\ \E n \in 0..Len(POLICY_ORDER) :
          /\ DOMAIN surveys = C12_PolicyPrefix(n)
          /\ \/ DOMAIN responses = C12_PolicyPrefix(n)
             \/ n < Len(POLICY_ORDER) /\ DOMAIN responses = C12_PolicyPrefix(n + 1)
    /\ current_page = "SummaryPage"
          => DOMAIN responses = PolicyKeys /\ DOMAIN surveys = PolicyKeys

\* C12 witness: the RRq2 page was submitted and its survey is not saved yet
C12_Witness ==
    /\ current_page = "SurveyPage"
    /\ policy_key = "RRq2"
    /\ DOMAIN responses = { "FIFO", "RRq2" }
    /\ DOMAIN surveys = { "FIFO" }

====
